---- MODULE Spec2Model ----
(***************************************************************************)
(* Model of the OSIS importer, tools/django_importer/import_osis_en.py:    *)
(* Command.handle and Command.run_import, the store they write through the  *)
(* Django models Book, Chapter, Verse and WordStrong, and the event stream  *)
(* that lxml's iterparse delivers.                                          *)
(*                                                                          *)
(* A Python str is modelled as a sequence of one-character strings, so that *)
(* strip, split, join, isdigit, int, replace and re.findall are computed.   *)
(* None, the empty string and an absent attribute are the empty sequence    *)
(* wherever the code treats them alike (truthiness tests, get with '').     *)
(***************************************************************************)
EXTENDS Integers, Sequences, FiniteSets, TLC

(***************************************************************************)
(* Characters                                                              *)
(***************************************************************************)
Whitespace == {" ", "\n", "\t"}

Digit == {"0", "1", "2", "3", "4", "5", "6", "7", "8", "9"}

Letter ==
    {"a", "b", "c", "d", "e", "f", "g", "h", "i", "j", "k", "l", "m",
     "n", "o", "p", "q", "r", "s", "t", "u", "v", "w", "x", "y", "z",
     "A", "B", "C", "D", "E", "F", "G", "H", "I", "J", "K", "L", "M",
     "N", "O", "P", "Q", "R", "S", "T", "U", "V", "W", "X", "Y", "Z"}

\* the class [\w'-] of the tokenizer's regular expression
WordChar == Letter \cup Digit \cup {"_", "'", "-"}

\* the class [.,;!?:] of the tokenizer's regular expression
Punctuation == {".", ",", ";", "!", "?", ":"}

None == <<>>

(***************************************************************************)
(* str methods                                                             *)
(***************************************************************************)
RECURSIVE LStrip(_)
LStrip(s) ==
    IF s = <<>> \/ Head(s) \notin Whitespace THEN s ELSE LStrip(Tail(s))

RECURSIVE RStrip(_)
RStrip(s) ==
    IF s = <<>> \/ s[Len(s)] \notin Whitespace THEN s
    ELSE RStrip(SubSeq(s, 1, Len(s) - 1))

\* str.strip()
Strip(s) == RStrip(LStrip(s))

\* length of the longest prefix of s whose characters are all in cls
RECURSIVE Run(_, _)
Run(s, cls) ==
    IF s = <<>> \/ Head(s) \notin cls THEN 0 ELSE 1 + Run(Tail(s), cls)

\* length of the longest prefix of s with no character in cls
RECURSIVE RunNot(_, _)
RunNot(s, cls) ==
    IF s = <<>> \/ Head(s) \in cls THEN 0 ELSE 1 + RunNot(Tail(s), cls)

\* str.split() with no argument: the maximal runs of non-whitespace
RECURSIVE Split(_)
Split(s) ==
    LET t == LStrip(s)
        k == RunNot(t, Whitespace)
    IN  IF t = <<>> THEN <<>>
        ELSE <<SubSeq(t, 1, k)>> \o Split(SubSeq(t, k + 1, Len(t)))

\* sep.join(parts)
RECURSIVE Join(_, _)
Join(sep, parts) ==
    IF parts = <<>> THEN <<>>
    ELSE IF Len(parts) = 1 THEN parts[1]
    ELSE parts[1] \o sep \o Join(sep, Tail(parts))

\* s.split('.')[-1]: what follows the last dot, all of s when it has none
RECURSIVE LastSegment(_)
LastSegment(s) ==
    IF \E i \in 1..Len(s) : s[i] = "."
    THEN LastSegment(SubSeq(s, RunNot(s, {"."}) + 2, Len(s)))
    ELSE s

\* str.isdigit(): non-empty and all digits
IsDigit(s) == s # <<>> /\ \A i \in 1..Len(s) : s[i] \in Digit

DigitValue(c) ==
    CASE c = "0" -> 0 [] c = "1" -> 1 [] c = "2" -> 2 [] c = "3" -> 3
      [] c = "4" -> 4 [] c = "5" -> 5 [] c = "6" -> 6 [] c = "7" -> 7
      [] c = "8" -> 8 [] c = "9" -> 9

\* int(s) for a string of digits
RECURSIVE ParseInt(_)
ParseInt(s) ==
    IF s = <<>> THEN 0
    ELSE 10 * ParseInt(SubSeq(s, 1, Len(s) - 1)) + DigitValue(s[Len(s)])

DigitChar(d) ==
    CASE d = 0 -> "0" [] d = 1 -> "1" [] d = 2 -> "2" [] d = 3 -> "3"
      [] d = 4 -> "4" [] d = 5 -> "5" [] d = 6 -> "6" [] d = 7 -> "7"
      [] d = 8 -> "8" [] d = 9 -> "9"

\* str(n) for n >= 0, as the f-string formats verse_number
RECURSIVE FormatInt(_)
FormatInt(n) ==
    IF n < 10 THEN <<DigitChar(n)>>
    ELSE FormatInt(n \div 10) \o <<DigitChar(n % 10)>>

IsPrefix(p, s) == Len(p) <= Len(s) /\ SubSeq(s, 1, Len(p)) = p

\* s.replace(pat, ''), pat non-empty
RECURSIVE Remove(_, _)
Remove(s, pat) ==
    IF s = <<>> THEN <<>>
    ELSE IF IsPrefix(pat, s) THEN Remove(SubSeq(s, Len(pat) + 1, Len(s)), pat)
    ELSE <<Head(s)>> \o Remove(Tail(s), pat)

\* the tail cut at whitespace only, as tail.split() would
FindAllBySplit(s) == Split(s)

\* re.findall(r'[\w\'-]+|[.,;!?:]', s)
RECURSIVE FindAll(_)
FindAll(s) ==
    IF s = <<>> THEN <<>>
    ELSE IF Head(s) \in WordChar
    THEN LET k == Run(s, WordChar)
         IN  <<SubSeq(s, 1, k)>> \o FindAll(SubSeq(s, k + 1, Len(s)))
    ELSE IF Head(s) \in Punctuation THEN <<<<Head(s)>>>> \o FindAll(Tail(s))
    ELSE FindAll(Tail(s))

(***************************************************************************)
(* Module constants                                                        *)
(***************************************************************************)
CANONICAL_OSIS_ID_ORDER == <<
    <<"G","e","n">>, <<"E","x","o","d">>, <<"L","e","v">>, <<"N","u","m">>,
    <<"D","e","u","t">>, <<"J","o","s","h">>, <<"J","u","d","g">>, <<"R","u","t","h">>,
    <<"1","S","a","m">>, <<"2","S","a","m">>, <<"1","K","g","s">>, <<"2","K","g","s">>,
    <<"1","C","h","r">>, <<"2","C","h","r">>, <<"E","z","r","a">>, <<"N","e","h">>,
    <<"E","s","t","h">>, <<"J","o","b">>, <<"P","s">>, <<"P","r","o","v">>,
    <<"E","c","c","l">>, <<"S","o","n","g">>, <<"I","s","a">>, <<"J","e","r">>,
    <<"L","a","m">>, <<"E","z","e","k">>, <<"D","a","n">>, <<"H","o","s">>,
    <<"J","o","e","l">>, <<"A","m","o","s">>, <<"O","b","a","d">>, <<"J","o","n","a","h">>,
    <<"M","i","c">>, <<"N","a","h">>, <<"H","a","b">>, <<"Z","e","p","h">>,
    <<"H","a","g">>, <<"Z","e","c","h">>, <<"M","a","l">>, <<"M","a","t","t">>,
    <<"M","a","r","k">>, <<"L","u","k","e">>, <<"J","o","h","n">>, <<"A","c","t","s">>,
    <<"R","o","m">>, <<"1","C","o","r">>, <<"2","C","o","r">>, <<"G","a","l">>,
    <<"E","p","h">>, <<"P","h","i","l">>, <<"C","o","l">>, <<"1","T","h","e","s","s">>,
    <<"2","T","h","e","s","s">>, <<"1","T","i","m">>, <<"2","T","i","m">>, <<"T","i","t","u","s">>,
    <<"P","h","l","m">>, <<"H","e","b">>, <<"J","a","s">>, <<"1","P","e","t">>,
    <<"2","P","e","t">>, <<"1","J","o","h","n">>, <<"2","J","o","h","n">>, <<"3","J","o","h","n">>,
    <<"J","u","d","e">>, <<"R","e","v">>
>>

\* list.index(x) + 1 when x is in the list, 0 when index raises ValueError
IndexOf(list, x) ==
    IF \E i \in 1..Len(list) : list[i] = x
    THEN CHOOSE i \in 1..Len(list) :
            list[i] = x /\ \A j \in 1..(i - 1) : list[j] # x
    ELSE 0


\* the rank given to a book: lines 99-103 (index + 1, or 999 on ValueError)
UNRANKED == 999

\* an unlisted book ranked with the last listed one
RankUnlistedAsLast(osis_id) ==
    IF IndexOf(CANONICAL_OSIS_ID_ORDER, osis_id) # 0
    THEN IndexOf(CANONICAL_OSIS_ID_ORDER, osis_id)
    ELSE Len(CANONICAL_OSIS_ID_ORDER)

Rank(osis_id) ==
    IF IndexOf(CANONICAL_OSIS_ID_ORDER, osis_id) # 0
    THEN IndexOf(CANONICAL_OSIS_ID_ORDER, osis_id)
    ELSE UNRANKED

TITRE_MANQUANT ==
    <<"T","i","t","r","e"," ","M","a","n","q","u","a","n","t">>

EN_COURS == <<"[","e","n"," ","c","o","u","r","s","]">>

STRONG_PREFIX == <<"s","t","r","o","n","g",":">>

(***************************************************************************)
(* The store: the four tables behind Book, Chapter, Verse and WordStrong.  *)
(* A row refers to its parent by the parent's key, as a foreign key does:  *)
(* a Book is keyed by osis_id, a Chapter by <<book, chapter_number>>, a     *)
(* Verse by <<chapter, verse_number>>, the keys the get_or_create calls     *)
(* look rows up by. WordStrong rows have no key and are kept in insertion   *)
(* order.                                                                   *)
(***************************************************************************)
EmptyStore == [books |-> {}, chapters |-> {}, verses |-> {}, words |-> <<>>]

BookRow(osis_id, name, order) ==
    [osis_id |-> osis_id, name |-> name, book_order |-> order]

ChapterRow(book, number, osis_id) ==
    [book |-> book, chapter_number |-> number, osis_id |-> osis_id]

VerseRow(chapter, number, osis_id, text) ==
    [chapter |-> chapter, verse_number |-> number, osis_id |-> osis_id,
     text |-> text]

WordStrong(verse, text, position, strong_ids) ==
    [verse |-> verse, text |-> text, position |-> position,
     strong_ids |-> strong_ids]

HasBook(st, osis_id) == \E b \in st.books : b.osis_id = osis_id

HasChapter(st, book, number) ==
    \E c \in st.chapters : c.book = book /\ c.chapter_number = number

HasVerse(st, chapter, number) ==
    \E v \in st.verses : v.chapter = chapter /\ v.verse_number = number

\* Book.objects.get_or_create(osis_id=..., defaults={name, book_order})
GetOrCreateBook(st, osis_id, name, order) ==
    IF HasBook(st, osis_id) THEN st
    ELSE [st EXCEPT !.books = @ \cup {BookRow(osis_id, name, order)}]

\* Chapter.objects.get_or_create(book=..., chapter_number=..., defaults={osis_id})
GetOrCreateChapter(st, book, number, osis_id) ==
    IF HasChapter(st, book, number) THEN st
    ELSE [st EXCEPT !.chapters = @ \cup {ChapterRow(book, number, osis_id)}]

\* Verse.objects.get_or_create(chapter=..., verse_number=..., defaults={osis_id, text})
GetOrCreateVerse(st, chapter, number, osis_id) ==
    IF HasVerse(st, chapter, number) THEN st
    ELSE [st EXCEPT
            !.verses = @ \cup {VerseRow(chapter, number, osis_id, EN_COURS)}]

\* current_verse_obj.text = ...; current_verse_obj.save(update_fields=['text'])
SaveVerseText(st, verse, text) ==
    [st EXCEPT !.verses =
        {IF <<v.chapter, v.verse_number>> = verse
         THEN [v EXCEPT !.text = text] ELSE v : v \in @}]

\* a batch call that stores nothing
BulkCreateNothing(st, words) == st

\* WordStrong.objects.bulk_create(words)
BulkCreate(st, words) == [st EXCEPT !.words = @ \o words]

(***************************************************************************)
(* Events of etree.iterparse(..., events=('start', 'end')): the element's  *)
(* local name, the attributes the importer reads, its text and its tail.   *)
(* title is the text of the title child that element.find returns at the   *)
(* start event of a book div (empty when there is none, or when the parser  *)
(* has not read the child yet). text and tail are what the element holds    *)
(* when its end event is delivered. element.clear() and the deletion of the *)
(* preceding siblings (lines 199-204) touch only elements whose end event   *)
(* has been handled and change nothing the loop reads later.                *)
(***************************************************************************)
Element(tag, type, osisID, sID, eID, n, lemma, title, text) ==
    [tag |-> tag, type |-> type, osisID |-> osisID, sID |-> sID, eID |-> eID,
     n |-> n, lemma |-> lemma, title |-> title, text |-> text]

StartOf(el) == [event |-> "start", element |-> el, tail |-> <<>>]

EndOf(el, tail) == [event |-> "end", element |-> el, tail |-> tail]

ZeroCounters ==
    [books |-> 0, chapters |-> 0, verses |-> 0, words |-> 0,
     words_in_w |-> 0, text_fragments |-> 0]

VARIABLES
    pc,                 \* where handle is
    path_exists,        \* os.path.exists(xml_file_path)
    store,              \* the database
    saved,              \* the savepoint of transaction.atomic()
    store0,             \* the database when handle was called
    current_book, current_chapter, current_verse_obj,
    is_in_verse_scope, words_to_create, verse_text_parts, position_counter,
    counters,
    document,           \* the events of the file, when the file is given
    pos,                \* number of events consumed
    stack,              \* the open elements of a file that is streamed
    run,                \* 1 for the first call of handle, 2 for the second
    first               \* the database as the first call left it

loopvars ==
    <<current_book, current_chapter, current_verse_obj, is_in_verse_scope,
      words_to_create, verse_text_parts, position_counter, counters>>

vars ==
    <<pc, path_exists, store, saved, store0, current_book, current_chapter,
      current_verse_obj, is_in_verse_scope, words_to_create, verse_text_parts,
      position_counter, counters, document, pos, stack, run, first>>

(***************************************************************************)
(* The body of the event loop                                              *)
(***************************************************************************)
\* the counter incremented whether or not the row was created
BumpAlways(c, name, created) == [c EXCEPT ![name] = @ + 1]

\* if created: counters[name] += 1
Bump(c, name, created) ==
    IF created THEN [c EXCEPT ![name] = @ + 1] ELSE c

\* ''.join(parts)
RECURSIVE Concat(_)
Concat(parts) ==
    IF parts = <<>> THEN <<>> ELSE Head(parts) \o Concat(Tail(parts))

\* the parts joined and nothing more
NormalizeNothing(parts) == Concat(parts)

\* lines 179-181: join, strip, collapse the whitespace runs, strip
Normalize(parts) == Strip(Join(<<" ">>, Split(Strip(Concat(parts)))))

\* lines 179-184: the text saved for a verse
FullText(verse_number, parts) ==
    <<"[">> \o FormatInt(verse_number) \o <<"]", " ">> \o Normalize(parts)

\* line 161 and line 164: the codes of a lemma attribute, None when none remain
StrongIds(lemma) ==
    LET strong_numbers == Split(Remove(lemma, STRONG_PREFIX))
        kept == SelectSeq(strong_numbers, LAMBDA s : Strip(s) # <<>>)
    IN  Join(<<",">>, [i \in 1..Len(kept) |-> Strip(kept[i])])

\* lines 94-110: start of <div type="book">
StartBook(el) ==
    LET book_title ==
            IF el.title # <<>> THEN Strip(el.title) ELSE TITRE_MANQUANT
        osis_id == Strip(el.osisID)
    IN  IF osis_id # <<>>
        THEN /\ store' = GetOrCreateBook(store, osis_id, book_title, Rank(osis_id))
             /\ current_book' = osis_id
             /\ counters' = Bump(counters, "books", ~HasBook(store, osis_id))
             /\ UNCHANGED <<current_chapter, current_verse_obj,
                            is_in_verse_scope, words_to_create,
                            verse_text_parts, position_counter>>
        ELSE UNCHANGED <<store, loopvars>>

\* a chapter whose number is not a number taken as chapter 0
StartChapterAlways(el) ==
    LET osis_id_attr == Strip(el.osisID)
        num_str == Strip(LastSegment(osis_id_attr))
        chapter_number == IF IsDigit(num_str) THEN ParseInt(num_str) ELSE 0
    IN  /\ store' = GetOrCreateChapter(store, current_book,
                                       chapter_number, osis_id_attr)
        /\ current_chapter' = <<current_book, chapter_number>>
        /\ counters' = Bump(counters, "chapters",
               ~HasChapter(store, current_book, chapter_number))
        /\ UNCHANGED <<current_book, current_verse_obj,
                       is_in_verse_scope, words_to_create,
                       verse_text_parts, position_counter>>

\* lines 112-118: start of <chapter> with a current book
StartChapter(el) ==
    LET osis_id_attr == Strip(el.osisID)
        num_str == Strip(LastSegment(osis_id_attr))
    IN  IF IsDigit(num_str)
        THEN LET chapter_number == ParseInt(num_str)
             IN  /\ store' = GetOrCreateChapter(store, current_book,
                                                chapter_number, osis_id_attr)
                 /\ current_chapter' = <<current_book, chapter_number>>
                 /\ counters' = Bump(counters, "chapters",
                        ~HasChapter(store, current_book, chapter_number))
                 /\ UNCHANGED <<current_book, current_verse_obj,
                                is_in_verse_scope, words_to_create,
                                verse_text_parts, position_counter>>
        ELSE UNCHANGED <<store, loopvars>>

\* a span-open that keeps the Tokens buffered before it
StartVerseKeepsBuffer(el) ==
    LET verse_n_str == Strip(el.n)
    IN  /\ is_in_verse_scope' = TRUE
        /\ words_to_create' = words_to_create
        /\ verse_text_parts' = <<>>
        /\ position_counter' = 0
        /\ UNCHANGED <<current_book, current_chapter>>
        /\ IF IsDigit(verse_n_str)
           THEN LET verse_number == ParseInt(verse_n_str)
                IN  /\ store' = GetOrCreateVerse(store, current_chapter,
                                    verse_number, Strip(el.osisID))
                    /\ current_verse_obj' = <<current_chapter, verse_number>>
                    /\ counters' = Bump(counters, "verses",
                            ~HasVerse(store, current_chapter, verse_number))
           ELSE UNCHANGED <<store, current_verse_obj, counters>>

\* lines 122-135: start of <verse sID=...> with a current chapter
StartVerse(el) ==
    LET verse_n_str == Strip(el.n)
    IN  /\ is_in_verse_scope' = TRUE
        /\ words_to_create' = <<>>
        /\ verse_text_parts' = <<>>
        /\ position_counter' = 0
        /\ UNCHANGED <<current_book, current_chapter>>
        /\ IF IsDigit(verse_n_str)
           THEN LET verse_number == ParseInt(verse_n_str)
                IN  /\ store' = GetOrCreateVerse(store, current_chapter,
                                    verse_number, Strip(el.osisID))
                    /\ current_verse_obj' = <<current_chapter, verse_number>>
                    /\ counters' = Bump(counters, "verses",
                            ~HasVerse(store, current_chapter, verse_number))
           ELSE UNCHANGED <<store, current_verse_obj, counters>>

\* lines 93-135: the branch of a start event
OnStart(el) ==
    IF el.tag = "div" /\ el.type = "book" THEN StartBook(el)
    ELSE IF el.tag = "chapter" /\ current_book # None THEN StartChapter(el)
    ELSE IF el.tag = "verse" /\ el.sID # "" /\ current_chapter # None
    THEN StartVerse(el)
    ELSE UNCHANGED <<store, loopvars>>

\* lines 143-150: the text buffer after an end event
PartsAfter(el, tail) ==
    LET collecting == is_in_verse_scope /\ el.tag # "verse"
        parts1 == IF collecting /\ el.text # <<>>
                  THEN Append(verse_text_parts, el.text) ELSE verse_text_parts
    IN  IF collecting /\ tail # <<>> THEN Append(parts1, tail) ELSE parts1

\* one fragment counted for every trailing text, blank or not
FragmentsPerTail(el, tail) ==
    LET collecting == is_in_verse_scope /\ el.tag # "verse"
    IN  (IF collecting /\ el.text # <<>> /\ el.tag # "w"
         THEN Len(Split(el.text)) ELSE 0)
      + (IF collecting /\ tail # <<>> THEN 1 ELSE 0)

\* lines 146-147 and 150: what an end event adds to counters['text_fragments']
Fragments(el, tail) ==
    LET collecting == is_in_verse_scope /\ el.tag # "verse"
    IN  (IF collecting /\ el.text # <<>> /\ el.tag # "w"
         THEN Len(Split(el.text)) ELSE 0)
      + (IF collecting /\ tail # <<>> THEN Len(Split(tail)) ELSE 0)

\* lines 156-158: the end event yields a tagged word
IsTagged(el) ==
    /\ is_in_verse_scope /\ current_verse_obj # None
    /\ el.tag = "w"
    /\ (IF el.text # <<>> THEN Strip(el.text) ELSE <<>>) # <<>>

\* lines 157-165: the token of the <w> element itself
TaggedWords(el) ==
    IF IsTagged(el)
    THEN <<WordStrong(current_verse_obj, Strip(el.text),
                      position_counter + 1, StrongIds(el.lemma))>>
    ELSE <<>>

\* lines 167-168: the tokens of the tail
TailTokens(tail) ==
    IF is_in_verse_scope /\ current_verse_obj # None
       /\ tail # <<>> /\ Strip(tail) # <<>>
    THEN FindAll(Strip(tail)) ELSE <<>>

\* lines 169-173: the tokens of the tail, numbered after the tagged word
TailWords(el, tail) ==
    LET tokens == TailTokens(tail)
        base == position_counter + Len(TaggedWords(el))
    IN  [i \in 1..Len(tokens) |->
            WordStrong(current_verse_obj, tokens[i], base + i, None)]

\* lines 138-197: the branch of an end event
OnEnd(el, tail) ==
    LET parts == PartsAfter(el, tail)
        words == words_to_create \o TaggedWords(el) \o TailWords(el, tail)
        position == position_counter + Len(TaggedWords(el))
                                     + Len(TailWords(el, tail))
        counted == [counters EXCEPT
                        !.text_fragments = @ + Fragments(el, tail),
                        !.words_in_w = @ + Len(TaggedWords(el))]
    IN  /\ position_counter' = position
        /\ UNCHANGED <<current_book, current_chapter>>
        /\ IF el.tag = "verse" /\ el.eID # "" /\ current_verse_obj # None
           THEN /\ store' = BulkCreate(
                        SaveVerseText(store, current_verse_obj,
                            FullText(current_verse_obj[2], parts)),
                        words)
                /\ counters' = [counted EXCEPT !.words = @ + Len(words)]
                /\ is_in_verse_scope' = FALSE
                /\ current_verse_obj' = None
                /\ words_to_create' = <<>>
                /\ verse_text_parts' = <<>>
           ELSE /\ words_to_create' = words
                /\ verse_text_parts' = parts
                /\ counters' = counted
                /\ UNCHANGED <<store, current_verse_obj, is_in_verse_scope>>

(***************************************************************************)
(* The files read. A streamed file is any well-nested sequence of events   *)
(* over the elements below, of at most MaxElements elements and MaxDepth    *)
(* open elements; <verse> and <w> elements have no children.                *)
(***************************************************************************)
MaxElements == 5

MaxDepth == 3

sGen == <<"G","e","n">>

sGen1 == <<"G","e","n",".","1">>

BookElement(osisID, title) ==
    Element("div", "book", osisID, "", "", <<>>, <<>>, title, <<>>)

ChapterElement(osisID) ==
    Element("chapter", "", osisID, "", "", <<>>, <<>>, <<>>, <<>>)

VerseOpen(n) == Element("verse", "", <<>>, "s", "", n, <<>>, <<>>, <<>>)

VerseClose == Element("verse", "", <<>>, "", "e", <<>>, <<>>, <<>>, <<>>)

WordElement(text, lemma) ==
    Element("w", "", <<>>, "", "", <<>>, lemma, <<>>, text)

OtherElement(tag, text) ==
    Element(tag, "", <<>>, "", "", <<>>, <<>>, <<>>, text)

StreamElements ==
    {BookElement(id, <<>>) : id \in {sGen, <<"Z","z">>, <<" ">>}}
    \cup {ChapterElement(id) : id \in {sGen1, <<"G","e","n",".","x">>}}
    \cup {VerseOpen(n) : n \in {<<"1">>, <<"x">>}}
    \cup {VerseClose}
    \cup {WordElement(<<"a">>, STRONG_PREFIX \o <<"H","1">>),
          WordElement(<<" ">>, <<>>)}
    \cup {OtherElement("q", text) : text \in {<<>>, <<"b">>}}

StreamTails == {<<>>, <<" ">>, <<" ", "\n", "c", ".">>}

(***************************************************************************)
(* A given file: <osis> holding one book div with a title-less or titled   *)
(* book, a first chapter, and at most MaxFragments fragments, each one a    *)
(* verse span, a new chapter or a new book.                                 *)
(***************************************************************************)
MaxFragments == 2

sExod == <<"E","x","o","d">>

sGenIntro == <<"G","e","n",".","i","n","t","r","o">>

sIn == <<"I","n">>

sH01 == <<"s","t","r","o","n","g",":","H","0","1">>

sTheBeginning == <<" ","t","h","e"," ","b","e","g","i","n","n","i","n","g",".">>

Osis == OtherElement("osis", <<>>)

\* an element with no children: its start event, then its end event
Empty(el, tail) == <<StartOf(el), EndOf(el, tail)>>

\* <verse sID n="1"/><w lemma="strong:H01">In</w> the beginning.<verse eID/>
MinimalSpan ==
    Empty(VerseOpen(<<"1">>), <<>>)
    \o Empty(WordElement(sIn, sH01), sTheBeginning)
    \o Empty(VerseClose, <<>>)

\* text after the opening marker, two codes, newlines, text after the closing marker
TailSpan ==
    Empty(VerseOpen(<<"1">>), <<"E","t"," ">>)
    \o Empty(WordElement(<<"D","i","e","u">>, <<"s","t","r","o","n","g",":","H","4","3","0"," "," ","s","t","r","o","n","g",":","H","1">>), <<" ","d","i","t",":","\n">>)
    \o Empty(VerseClose, <<"\n"," "," ","f","i","n">>)

\* an element with direct text and a child
NestedSpan ==
    Empty(VerseOpen(<<"2">>), <<>>)
    \o <<StartOf(OtherElement("q", <<"I","l"," ","d","i","t"," ">>))>>
    \o Empty(WordElement(<<"v","a">>, <<>>), <<"!">>)
    \o <<EndOf(OtherElement("q", <<"I","l"," ","d","i","t"," ">>), <<>>)>>
    \o Empty(VerseClose, <<>>)

\* a verse number that is not a number
UnnumberedSpan ==
    Empty(VerseOpen(<<"1","a">>), <<>>)
    \o Empty(WordElement(<<"m","o","t">>, <<"s","t","r","o","n","g",":","G","5">>), <<" ","(","x",")"," ">>)
    \o Empty(VerseClose, <<>>)

\* a span that is never closed
OpenSpan ==
    Empty(VerseOpen(<<"2">>), <<>>)
    \o Empty(WordElement(<<"a">>, <<"H","7">>), <<" ","b">>)

\* a closing marker alone
StrayClose == Empty(VerseClose, <<"z">>)

\* nothing between the markers
EmptySpan == Empty(VerseOpen(<<"3">>), <<>>) \o Empty(VerseClose, <<>>)

\* an element that begins before the span and ends inside it
EndsInsideSpan ==
    <<StartOf(OtherElement("p", <<"A","v","a","n","t"," ">>))>>
    \o Empty(VerseOpen(<<"3">>), <<>>)
    \o Empty(WordElement(<<" "," ">>, sH01), <<" ","o","u","i"," ">>)
    \o <<EndOf(OtherElement("p", <<"A","v","a","n","t"," ">>), <<>>)>>
    \o Empty(VerseClose, <<>>)

\* an element that begins inside the span and ends after it
BeginsInsideSpan ==
    Empty(VerseOpen(<<"4">>), <<>>)
    \o <<StartOf(OtherElement("p", <<"D","e","d","a","n","s">>))>>
    \o Empty(VerseClose, <<>>)
    \o <<EndOf(OtherElement("p", <<"D","e","d","a","n","s">>), <<" ","d","e","h","o","r","s">>)>>

\* a pretty-printed span: only white space after each element
SpacedSpan ==
    Empty(VerseOpen(<<"5">>), <<" ">>)
    \o Empty(WordElement(<<"u","n">>, sH01), <<" ">>)
    \o Empty(OtherElement("q", <<"d","e","u","x">>), <<"\n"," ">>)
    \o Empty(VerseClose, <<"\n">>)

Span(events) == [kind |-> "span", id |-> <<>>, events |-> events]

NewChapter(id) == [kind |-> "chapter", id |-> id, events |-> <<>>]

NewBook(id) == [kind |-> "book", id |-> id, events |-> <<>>]

FragmentSet ==
    {Span(e) : e \in {MinimalSpan, TailSpan, NestedSpan, UnnumberedSpan,
                      OpenSpan, StrayClose, EmptySpan, EndsInsideSpan,
                      BeginsInsideSpan, SpacedSpan}}
    \cup {NewChapter(id) : id \in {sGen1, sGenIntro}}
    \cup {NewBook(id) : id \in {sExod}}

\* the end events of the open chapter and of the open book
CloseChapter(chapter) ==
    IF chapter = <<>> THEN <<>> ELSE <<EndOf(ChapterElement(chapter), <<>>)>>

\* the events of the fragments, inside the book and the chapter that are open
RECURSIVE Build(_, _, _)
Build(frs, book, chapter) ==
    IF frs = <<>>
    THEN CloseChapter(chapter) \o <<EndOf(book, <<>>)>>
    ELSE LET f == Head(frs)
         IN  IF f.kind = "book"
             THEN CloseChapter(chapter)
                  \o <<EndOf(book, <<>>), StartOf(BookElement(f.id, <<>>))>>
                  \o Build(Tail(frs), BookElement(f.id, <<>>), <<>>)
             ELSE IF f.kind = "chapter"
             THEN CloseChapter(chapter) \o <<StartOf(ChapterElement(f.id))>>
                  \o Build(Tail(frs), book, f.id)
             ELSE f.events \o Build(Tail(frs), book, chapter)

DocumentOf(book, chapter, frs) ==
    <<StartOf(Osis), StartOf(book), StartOf(ChapterElement(chapter))>>
    \o Build(frs, book, chapter)
    \o <<EndOf(Osis, <<>>)>>

FirstBooks ==
    {BookElement(sGen, <<>>), BookElement(<<" ","A","p","o","c"," ">>, <<" ","A","p","o","c","r","y","p","h","e"," ">>)}

Documents ==
    {DocumentOf(book, chapter, frs) :
        book \in FirstBooks,
        chapter \in {sGen1, sGenIntro},
        frs \in UNION {[1..n -> FragmentSet] : n \in 0..MaxFragments}}

\* the document of the specification's example
MinimalDocument == DocumentOf(BookElement(sGen, <<>>), sGen1, <<Span(MinimalSpan)>>)

Streamed == document = <<>>

\* the events iterparse may deliver next
Offered ==
    IF ~Streamed
    THEN IF pos < Len(document) THEN {document[pos + 1]} ELSE {}
    ELSE (IF /\ Len(stack) < MaxDepth
             /\ (pos + Len(stack)) \div 2 < MaxElements
             /\ (stack = <<>> => pos = 0)
             /\ (stack # <<>> => stack[Len(stack)].tag \notin {"verse", "w"})
          THEN {StartOf(el) : el \in StreamElements} ELSE {})
         \cup
         (IF stack # <<>>
          THEN {EndOf(stack[Len(stack)], tail) :
                    tail \in IF Len(stack) = 1 THEN {<<>>} ELSE StreamTails}
          ELSE {})

\* the file has been read to its end
Exhausted ==
    IF Streamed THEN pos > 0 /\ stack = <<>> ELSE pos = Len(document)

Advance(ev) ==
    /\ pos' = pos + 1
    /\ stack' = IF ~Streamed THEN stack
                ELSE IF ev.event = "start" THEN Append(stack, ev.element)
                ELSE SubSeq(stack, 1, Len(stack) - 1)

(***************************************************************************)
(* Command.handle and Command.run_import                                   *)
(***************************************************************************)
\* no transaction: what was written stays
RollbackNothing(st, savepoint) == st

\* what the database holds after the atomic block is left by an exception
Rollback(st, savepoint) == savepoint

\* the file looked for after the old data is deleted
MissingAfterWipe ==
    /\ pc = "handle" /\ ~path_exists
    /\ store' = EmptyStore
    /\ pc' = "failed"
    /\ UNCHANGED <<path_exists, saved, store0, loopvars, document, pos,
                   stack, run, first>>

\* lines 46-47: the file is missing
Missing ==
    /\ pc = "handle" /\ ~path_exists
    /\ pc' = "failed"
    /\ UNCHANGED <<path_exists, store, saved, store0, loopvars, document, pos,
                   stack, run, first>>

\* lines 49-54: the atomic block is entered
Begin ==
    /\ pc = "handle" /\ path_exists
    /\ saved' = store
    /\ pc' = "delete_words"
    /\ UNCHANGED <<path_exists, store, store0, loopvars, document, pos, stack,
                   run, first>>

\* the WordStrong rows left in place
DeleteWordsSkipped ==
    /\ pc = "delete_words"
    /\ pc' = "delete_verses"
    /\ UNCHANGED <<path_exists, store, saved, store0, loopvars, document, pos,
                   stack, run, first>>

\* line 66
DeleteWords ==
    /\ pc = "delete_words"
    /\ store' = [store EXCEPT !.words = <<>>]
    /\ pc' = "delete_verses"
    /\ UNCHANGED <<path_exists, saved, store0, loopvars, document, pos, stack,
                   run, first>>

\* line 67
DeleteVerses ==
    /\ pc = "delete_verses"
    /\ store' = [store EXCEPT !.verses = {}]
    /\ pc' = "delete_chapters"
    /\ UNCHANGED <<path_exists, saved, store0, loopvars, document, pos, stack,
                   run, first>>

\* line 68
DeleteChapters ==
    /\ pc = "delete_chapters"
    /\ store' = [store EXCEPT !.chapters = {}]
    /\ pc' = "delete_books"
    /\ UNCHANGED <<path_exists, saved, store0, loopvars, document, pos, stack,
                   run, first>>

\* lines 69-87: the last delete, the state of the loop, the parser
DeleteBooks ==
    /\ pc = "delete_books"
    /\ store' = [store EXCEPT !.books = {}]
    /\ current_book' = None
    /\ current_chapter' = None
    /\ current_verse_obj' = None
    /\ is_in_verse_scope' = FALSE
    /\ words_to_create' = <<>>
    /\ verse_text_parts' = <<>>
    /\ position_counter' = 0
    /\ counters' = ZeroCounters
    /\ pos' = 0
    /\ stack' = <<>>
    /\ pc' = "parse"
    /\ UNCHANGED <<path_exists, saved, store0, document, run, first>>

\* lines 89-135: one start event
StartEvent ==
    /\ pc = "parse"
    /\ \E ev \in Offered :
        /\ ev.event = "start"
        /\ OnStart(ev.element)
        /\ Advance(ev)
    /\ UNCHANGED <<pc, path_exists, saved, store0, document, run, first>>

\* lines 89-90 and 138-204: one end event
EndEvent ==
    /\ pc = "parse"
    /\ \E ev \in Offered :
        /\ ev.event = "end"
        /\ OnEnd(ev.element, ev.tail)
        /\ Advance(ev)
    /\ UNCHANGED <<pc, path_exists, saved, store0, document, run, first>>

\* lines 206-210 and 61: the loop ends, the atomic block commits
Finish ==
    /\ pc = "parse" /\ Exhausted
    /\ pc' = "done"
    /\ UNCHANGED <<path_exists, store, saved, store0, loopvars, document, pos,
                   stack, run, first>>

\* lines 54-59: an exception leaves the atomic block, CommandError is raised
Fail ==
    /\ pc \in {"delete_words", "delete_verses", "delete_chapters",
               "delete_books", "parse"}
    /\ store' = Rollback(store, saved)
    /\ pc' = "failed"
    /\ UNCHANGED <<path_exists, saved, store0, loopvars, document, pos, stack,
                   run, first>>

\* what an earlier import may have left in the database
OldStore ==
    [books |-> {BookRow(sGen, TITRE_MANQUANT, 1)},
     chapters |-> {ChapterRow(sGen, 1, sGen1)},
     verses |-> {VerseRow(<<sGen, 1>>, 1, <<>>, <<"[","1","]"," ","o","l","d">>)},
     words |-> <<WordStrong(<<<<sGen, 1>>, 1>>, <<"o","l","d">>, 1, None)>>]

InitCommon ==
    /\ pc = "handle"
    /\ path_exists \in BOOLEAN
    /\ store \in {EmptyStore, OldStore}
    /\ saved = store
    /\ store0 = store
    /\ current_book = None
    /\ current_chapter = None
    /\ current_verse_obj = None
    /\ is_in_verse_scope = FALSE
    /\ words_to_create = <<>>
    /\ verse_text_parts = <<>>
    /\ position_counter = 0
    /\ counters = ZeroCounters
    /\ pos = 0
    /\ stack = <<>>
    /\ run = 1
    /\ first = EmptyStore

Init == InitCommon /\ document = <<>>

Next ==
    \/ Missing
    \/ Begin
    \/ DeleteWords
    \/ DeleteVerses
    \/ DeleteChapters
    \/ DeleteBooks
    \/ StartEvent
    \/ EndEvent
    \/ Finish
    \/ Fail

Spec == Init /\ [][Next]_vars

\* handle is called again on the same file
Rerun ==
    /\ pc = "done" /\ run = 1
    /\ run' = 2
    /\ first' = store
    /\ store0' = store
    /\ pc' = "handle"
    /\ UNCHANGED <<path_exists, store, saved, loopvars, document, pos, stack>>

InitDoc == InitCommon /\ document \in Documents

NextDoc == Next \/ Rerun

SpecDoc == InitDoc /\ [][NextDoc]_vars

(***************************************************************************)
(* Properties                                                              *)
(***************************************************************************)
Running == pc \in {"parse", "done"}

VerseKey(v) == <<v.chapter, v.verse_number>>

\* the indices of the WordStrong rows of a verse
WordsOf(key) == {i \in 1..Len(store.words) : store.words[i].verse = key}

\* C1: after a run, the positions of the tokens stored for each Verse are
\* exactly 1..k, k the number of tokens stored for that Verse, also when a
\* verse number is opened more than once in a chapter.
C1_PositionsGapless ==
    pc = "done" =>
        \A v \in store.verses :
            /\ {store.words[i].position : i \in WordsOf(VerseKey(v))}
                    = 1..Cardinality(WordsOf(VerseKey(v)))
            /\ \A i, j \in WordsOf(VerseKey(v)) :
                    store.words[i].position = store.words[j].position => i = j

IsStart(e, tag) == e.event = "start" /\ e.element.tag = tag

IsSpanOpen(e) == IsStart(e, "verse") /\ e.element.sID # ""

\* the index of the last span-open marker before event k of the document
LastOpen(k) ==
    CHOOSE j \in 1..(k - 1) :
        /\ IsSpanOpen(document[j])
        /\ \A i \in (j + 1)..(k - 1) : ~IsSpanOpen(document[i])

\* the text of the file from event i to event j, in document order: the
\* direct text of an element where it starts, its tail where it ends
RECURSIVE TextBetween(_, _)
TextBetween(i, j) ==
    IF i > j THEN <<>>
    ELSE (IF document[i].event = "start" THEN document[i].element.text
          ELSE document[i].tail)
         \o TextBetween(i + 1, j)

\* the step consumes the end event of a span-close marker that closes a verse
ClosesVerse ==
    /\ pc = "parse" /\ ~Streamed /\ pos' = pos + 1
    /\ current_verse_obj # None /\ current_verse_obj' = None

\* C2: the text saved when a span opened with a numeric verse number is
\* closed is "[n] " and the whitespace-normalized text of the file between
\* the two markers, in document order. (The text that directly follows the
\* opening marker, its own tail, is left out of the comparison.)
C2_TextInDocumentOrder ==
    [][(/\ ClosesVerse
        /\ \E j \in 1..pos : IsSpanOpen(document[j])
        /\ IsDigit(Strip(document[LastOpen(pos')].element.n)))
       => \E v \in store'.verses :
            /\ VerseKey(v) = current_verse_obj
            /\ v.verse_number = ParseInt(Strip(document[LastOpen(pos')].element.n))
            /\ v.text = FullText(v.verse_number,
                            <<TextBetween(LastOpen(pos') + 2, pos' - 1)>>)]_vars

\* the part of a saved text after its "[n] " prefix
AfterPrefix(v) ==
    SubSeq(v.text, Len(FormatInt(v.verse_number)) + 4, Len(v.text))

\* C3: a saved verse text is "[n] ", n the verse's number, and then a text
\* with no two whitespace characters in a row, no newline, and no whitespace
\* at either end.
C3_TextNormalized ==
    Running =>
        \A v \in store.verses :
            v.text # EN_COURS =>
                LET rest == AfterPrefix(v)
                IN  /\ IsPrefix(<<"[">> \o FormatInt(v.verse_number)
                                        \o <<"]", " ">>, v.text)
                    /\ \A i \in 1..Len(rest) : rest[i] # "\n"
                    /\ \A i \in 1..(Len(rest) - 1) :
                        ~(rest[i] \in Whitespace /\ rest[i + 1] \in Whitespace)
                    /\ rest # <<>> =>
                        rest[1] \notin Whitespace /\ rest[Len(rest)] \notin Whitespace

\* a text saved from a buffer that held a newline and a run of whitespace
C3_Witness ==
    /\ Running
    /\ \E v \in store.verses :
        /\ v.text # EN_COURS
        /\ AfterPrefix(v) = <<"a", " ", "c", ".">>

\* a text saved from an empty buffer
C3_WitnessEmpty ==
    /\ Running
    /\ \E v \in store.verses : v.text = <<"[", "1", "]", " ">>

\* C4: when handle ends by an exception raised inside run_import, the
\* database is what it was when handle was called, and handle reports
\* success only when the whole file was read.
C4_FailureRollsBack ==
    /\ (pc = "failed" => store = store0)
    /\ (pc = "done" => Exhausted)

C4_Witness ==
    /\ pc = "failed" /\ path_exists
    /\ store0 = OldStore
    /\ counters.verses > 0

\* C5: when the file does not exist, handle fails and the database is
\* untouched: nothing deleted, nothing created.
C5_MissingInputNoMutation ==
    ~path_exists => store = store0 /\ pc \in {"handle", "failed"}

C5_Witness == ~path_exists /\ pc = "failed" /\ store = OldStore

\* C6: a second import of the same file leaves the Books, Chapters, Verses
\* and Tokens that the first import left.
C6_SecondRunSame ==
    (run = 2 /\ pc = "done") => store = first

C6_Witness ==
    /\ run = 2 /\ pc = "done"
    /\ Len(store.words) > 4
    /\ \E v \in store.verses : v.text # EN_COURS

NotListed(b) == IndexOf(CANONICAL_OSIS_ID_ORDER, b.osis_id) = 0

\* C7: an event that creates a Book whose identifier is not in the canonical
\* list gives it a rank greater than the rank of every listed identifier
\* (1..66, the positions in the list), and the loop goes on.
C7_UnknownBookRankedLast ==
    [][(pc = "parse" /\ \E b \in store'.books \ store.books : NotListed(b))
       => /\ pc' = "parse"
          /\ \A b \in store'.books \ store.books :
                \A i \in 1..Len(CANONICAL_OSIS_ID_ORDER) : b.book_order > i]_vars

C7_Witness ==
    /\ Running
    /\ \E b \in store.books :
        /\ NotListed(b)
        /\ \E c \in store.chapters : c.book = b.osis_id

\* C8: the minimal document yields Book("Gen", rank 1), Chapter(1),
\* Verse(1, "[1] In the beginning.") and the tokens ("In", 1, "H01"),
\* ("the", 2, none), ("beginning", 3, none), (".", 4, none).
C8_MinimalDocument ==
    (document = MinimalDocument /\ pc = "done") =>
        /\ {<<b.osis_id, b.book_order>> : b \in store.books} = {<<sGen, 1>>}
        /\ {<<c.book, c.chapter_number>> : c \in store.chapters} = {<<sGen, 1>>}
        /\ {<<v.chapter, v.verse_number, v.text>> : v \in store.verses}
            = {<<<<sGen, 1>>, 1, <<"[","1","]"," ","I","n"," ","t","h","e"," ","b","e","g","i","n","n","i","n","g",".">>>>}
        /\ [i \in 1..Len(store.words) |->
                <<store.words[i].verse, store.words[i].text,
                  store.words[i].position, store.words[i].strong_ids>>]
            = << <<<<<<sGen, 1>>, 1>>, sIn, 1, <<"H","0","1">>>>,
                 <<<<<<sGen, 1>>, 1>>, <<"t","h","e">>, 2, None>>,
                 <<<<<<sGen, 1>>, 1>>, <<"b","e","g","i","n","n","i","n","g">>, 3, None>>,
                 <<<<<<sGen, 1>>, 1>>, <<".">>, 4, None>> >>

C8_Witness == document = MinimalDocument /\ pc = "done" /\ run = 1

\* C9: at the end of a successful run the counts of books, chapters, verses
\* and tokens are the numbers of rows in the four tables.
C9_CountsMatchStore ==
    pc = "done" =>
        /\ counters.books = Cardinality(store.books)
        /\ counters.chapters = Cardinality(store.chapters)
        /\ counters.verses = Cardinality(store.verses)
        /\ counters.words = Len(store.words)

C9_Witness ==
    /\ pc = "done"
    /\ counters.books = 1 /\ counters.chapters = 1 /\ counters.verses = 1
    /\ counters.words > 1

\* the chapter number an event's osisID gives is not a number
IsBadChapterStart(e) ==
    IsStart(e, "chapter")
    /\ ~IsDigit(Strip(LastSegment(Strip(e.element.osisID))))

IsNumericChapterStart(e) ==
    IsStart(e, "chapter")
    /\ IsDigit(Strip(LastSegment(Strip(e.element.osisID))))

IsBookStart(e) == IsStart(e, "div") /\ e.element.type = "book"

\* event k follows a chapter start with a non-numeric number, in the same
\* book and before the next chapter start with a numeric one
AfterBadChapter(k) ==
    \E j \in 1..(k - 1) :
        /\ IsBadChapterStart(document[j])
        /\ \A i \in (j + 1)..(k - 1) :
            ~IsNumericChapterStart(document[i]) /\ ~IsBookStart(document[i])

\* the step consumes a span-open event that follows such a chapter start
OpensAfterBadChapter ==
    /\ pc = "parse" /\ ~Streamed /\ pos' = pos + 1
    /\ IsSpanOpen(document[pos'])
    /\ AfterBadChapter(pos')

\* C10, as stated: a span-open event that follows a chapter start with a
\* non-numeric number creates no Verse, whatever chapters came earlier.
C10_NoVerseAfterBadChapter ==
    [][OpensAfterBadChapter => store'.verses = store.verses]_vars

\* a chapter start with a numeric number came before event k, after the
\* start of a book with an identifier: currentChapter has been set
ChapterSetBefore(k) ==
    \E i \in 1..(k - 1) :
        /\ IsNumericChapterStart(document[i])
        /\ \E h \in 1..(i - 1) :
            IsBookStart(document[h]) /\ Strip(document[h].element.osisID) # <<>>

\* C10, amended: it creates no Verse when no earlier chapter start of the
\* run has set currentChapter; when one has, currentChapter still is that
\* Chapter and a span-open with a numeric verse number gets or creates its
\* Verse under it.
C10_NoVerseWithoutEarlierChapter ==
    [][OpensAfterBadChapter =>
        IF ~ChapterSetBefore(pos')
        THEN store'.verses = store.verses
        ELSE /\ current_chapter # None
             /\ current_chapter' = current_chapter
             /\ IsDigit(Strip(document[pos'].element.n)) =>
                    HasVerse(store', current_chapter,
                             ParseInt(Strip(document[pos'].element.n)))]_vars

C10_Witness ==
    /\ pc = "parse" /\ ~Streamed /\ pos > 0
    /\ IsSpanOpen(document[pos])
    /\ AfterBadChapter(pos)
    /\ ~ChapterSetBefore(pos)
    /\ IsDigit(Strip(document[pos].element.n))
    /\ is_in_verse_scope = FALSE
    /\ store.verses = {}
\* the step consumes the next event of the given file
Consumes == pc = "parse" /\ ~Streamed /\ pos' = pos + 1

\* C11: a chapter start whose number is not a number creates no Chapter and
\* leaves currentBook, currentChapter, currentVerse, inVerseSpan, the token
\* buffer, the text buffer, the position counter and the counters unchanged.
C11_BadChapterChangesNothing ==
    [][(Consumes /\ IsBadChapterStart(document[pos']))
       => /\ store' = store
          /\ current_book' = current_book
          /\ current_chapter' = current_chapter
          /\ current_verse_obj' = current_verse_obj
          /\ is_in_verse_scope' = is_in_verse_scope
          /\ words_to_create' = words_to_create
          /\ verse_text_parts' = verse_text_parts
          /\ position_counter' = position_counter
          /\ counters' = counters]_vars

\* such a chapter start has just been consumed inside an open span, after a
\* book and a chapter were set and tokens buffered
C11_Witness ==
    /\ pc = "parse" /\ ~Streamed /\ pos > 0
    /\ IsBadChapterStart(document[pos])
    /\ current_book # None /\ current_chapter # None
    /\ current_verse_obj # None /\ is_in_verse_scope
    /\ words_to_create # <<>>
    /\ store.chapters = {ChapterRow(sGen, 1, sGen1)}

\* the last span-open among the first k events had a verse number that is
\* not a number, and came when currentChapter was set
Verseless(k) ==
    /\ ~Streamed
    /\ \E j \in 1..k : IsSpanOpen(document[j])
    /\ ~IsDigit(Strip(document[LastOpen(k + 1)].element.n))
    /\ ChapterSetBefore(LastOpen(k + 1))

\* C12: a span-open with a verse number that is not a number, under a set
\* chapter, creates no Verse; from it to the next span-open inVerseSpan is
\* true, currentVerse is absent and no Token is buffered for or stored under
\* any Verse.
C12_VerselessSpan ==
    /\ []((pc = "parse" /\ Verseless(pos))
            => /\ is_in_verse_scope
               /\ current_verse_obj = None
               /\ words_to_create = <<>>)
    /\ [][(Consumes /\ Verseless(pos'))
            => /\ Cardinality(store'.verses) = Cardinality(store.verses)
               /\ store'.words = store.words]_vars

\* the step saves a verse text: only the span-close branch clears
\* current_verse_obj inside the loop
SavesText ==
    pc = "parse" /\ pc' = "parse"
    /\ current_verse_obj # None /\ current_verse_obj' = None

TextOf(st, key) == {v.text : v \in {w \in st.verses : VerseKey(w) = key}}

\* C13: in a run a Verse's text is written at most once, and only by a
\* span-close event: a step that saves a text finds the placeholder, and a
\* step that changes a text of a Verse is such a step.
C13_TextWrittenOnce ==
    /\ [][SavesText => TextOf(store, current_verse_obj) = {EN_COURS}]_vars
    /\ [][(pc = "parse" /\ pc' = "parse"
           /\ \E v \in store.verses : TextOf(store', VerseKey(v)) # {v.text})
          => SavesText]_vars
\* every word element of the given file that has text names a Strong code,
\* so the Tokens made from a word element's own text are those with codes
AllWordsCoded ==
    /\ ~Streamed
    /\ \A i \in 1..Len(document) :
        (document[i].element.tag = "w" /\ Strip(document[i].element.text) # <<>>)
            => StrongIds(document[i].element.lemma) # None

StoredTagged == {i \in 1..Len(store.words) : store.words[i].strong_ids # None}

\* C14: at the end of a successful run the reported count of tagged words
\* is the number of stored Tokens made from the own text of a word element.
C14_TaggedCountIsStored ==
    (pc = "done" /\ AllWordsCoded)
        => counters.words_in_w = Cardinality(StoredTagged)
\* an end event whose trailing text is not empty and is all white space
IsBlankTailEnd(e) == e.event = "end" /\ e.tail # <<>> /\ Strip(e.tail) = <<>>

\* C15: an end event whose trailing text is all white space appends no Token
\* to the token buffer and changes neither the position counter nor the
\* counter of stray fragments.
C15_BlankTailEndChangesNothing ==
    [][(Consumes /\ IsBlankTailEnd(document[pos']))
       => /\ Len(words_to_create') <= Len(words_to_create)
          /\ position_counter' = position_counter
          /\ counters'.text_fragments = counters.text_fragments]_vars

\* C15 (amended): the trailing text of such an end event gives no Token, no
\* position and no stray fragment. The event does what the element's own
\* text asks: a word element with text, in a span with a verse, appends its
\* one Token and takes one position; another element in a span adds the
\* words of its own text to the stray fragments; a closing marker empties
\* the buffer.
C15_BlankTailAddsNothing ==
    [][(Consumes /\ IsBlankTailEnd(document[pos']))
       => LET el == document[pos'].element
              attached == is_in_verse_scope /\ current_verse_obj # None
              own == attached /\ el.tag = "w" /\ Strip(el.text) # <<>>
              closes == el.tag = "verse" /\ el.eID # "" /\ current_verse_obj # None
              stray == IF is_in_verse_scope /\ el.tag \notin {"verse", "w"}
                       THEN Len(Split(el.text)) ELSE 0
              token == [text |-> Strip(el.text), verse |-> current_verse_obj,
                        position |-> position_counter + 1,
                        strong_ids |-> StrongIds(el.lemma)]
          IN  /\ position_counter' = position_counter + (IF own THEN 1 ELSE 0)
              /\ words_to_create' =
                    IF closes THEN <<>>
                    ELSE IF own THEN Append(words_to_create, token)
                    ELSE words_to_create
              /\ counters'.text_fragments = counters.text_fragments + stray]_vars

\* a word element followed by white space only has just ended in a span:
\* its Token is the last of the buffer
C15_Witness ==
    /\ pc = "parse" /\ ~Streamed /\ pos > 0
    /\ IsBlankTailEnd(document[pos])
    /\ document[pos].element.tag = "w"
    /\ words_to_create # <<>>
    /\ words_to_create[Len(words_to_create)].text = <<"u","n">>
    /\ position_counter = 1

\* an element with text of its own, followed by white space only, has just
\* ended in a span and its text was counted
C15_WitnessStray ==
    /\ pc = "parse" /\ ~Streamed /\ pos > 0
    /\ IsBlankTailEnd(document[pos])
    /\ document[pos].element.tag = "q"
    /\ is_in_verse_scope
    /\ counters.text_fragments = 1
\* the end event of a closing marker
IsSpanClose(e) ==
    e.event = "end" /\ e.element.tag = "verse" /\ e.element.eID # ""

\* in the given file every span-open with a numeric verse number, under a
\* set chapter, is followed by a closing marker before the next span-open
WellClosed ==
    /\ ~Streamed
    /\ \A j \in 1..Len(document) :
        (/\ IsSpanOpen(document[j])
         /\ IsDigit(Strip(document[j].element.n))
         /\ ChapterSetBefore(j))
        => \E k \in (j + 1)..Len(document) :
            /\ IsSpanClose(document[k])
            /\ \A i \in (j + 1)..k : ~IsSpanOpen(document[i])

\* the step drops buffered Tokens: the buffer is neither kept nor added to
\* the stored Tokens
Discards ==
    /\ words_to_create # <<>>
    /\ ~IsPrefix(words_to_create, words_to_create')
    /\ ~IsPrefix(store.words \o words_to_create, store'.words)

\* C16: when every numeric span-open under a set chapter is closed before
\* the next span-open, the run ends with no Verse holding the placeholder
\* text and with nothing left in the token buffer, and no step of the run
\* drops a buffered Token.
C16_ClosedSpansAreSaved ==
    /\ []((pc = "done" /\ WellClosed)
            => /\ \A v \in store.verses : v.text # EN_COURS
               /\ words_to_create = <<>>)
    /\ [][(pc = "parse" /\ WellClosed) => ~Discards]_vars

\* such a run has ended after two closed spans, with the Tokens of both stored
C16_Witness ==
    /\ pc = "done" /\ WellClosed
    /\ Cardinality(store.verses) = 2
    /\ Len(store.words) >= 6
    /\ \E i \in 1..Len(document) :
        IsSpanClose(document[i]) /\ document[i].tail # <<>>
\* C17: between events currentChapter, when set, is a Chapter of
\* currentBook, so that a Verse is never created under a chapter of an
\* earlier book after a later book has started.
C17_ChapterOfCurrentBook ==
    (Running /\ current_chapter # None) => current_chapter[1] = current_book
\* the sequence has the other one as a run of consecutive elements
IsSubstring(p, s) ==
    \E i \in 0..(Len(s) - Len(p)) : SubSeq(s, i + 1, i + Len(p)) = p

\* C18: each stored Token comes from a fragment that was also put in the
\* text buffer of its Verse, so its text occurs in the saved text of the
\* Verse; the trailing text of the opening and of the closing marker gives
\* no Token.
C18_TokenTextInVerseText ==
    Running =>
        \A i \in 1..Len(store.words) :
            \A v \in store.verses :
                VerseKey(v) = store.words[i].verse
                    => IsSubstring(store.words[i].text, AfterPrefix(v))
\* C19: between events, currentVerse set implies inVerseSpan, and a token
\* buffer that is not empty implies inVerseSpan and currentVerse set, every
\* buffered Token being owned by currentVerse.
C19_BufferOwnedByCurrentVerse ==
    Running =>
        /\ current_verse_obj # None => is_in_verse_scope
        /\ words_to_create # <<>> =>
            /\ is_in_verse_scope
            /\ current_verse_obj # None
            /\ \A i \in 1..Len(words_to_create) :
                words_to_create[i].verse = current_verse_obj

\* a second span is open after one that was left open, and it has buffered
\* Tokens of its own
C19_Witness ==
    /\ pc = "parse" /\ ~Streamed
    /\ Cardinality(store.verses) = 2
    /\ Len(words_to_create) >= 2
    /\ current_verse_obj # None /\ is_in_verse_scope
    /\ \E v \in store.verses :
        VerseKey(v) # current_verse_obj /\ v.text = EN_COURS
====
